---- MODULE Spec2Model ----
(***************************************************************************)
(* The multi-agent chat pipeline of src/index.tsx (component App and its   *)
(* submit handler handleSubmit) as a state machine.                        *)
(*                                                                         *)
(* A text is a sequence of segments: a template literal `a${x}b` is the    *)
(* concatenation <<"a">> \o x \o <<"b">>; the empty string is <<>>.        *)
(* A Message / Content {role, parts: [{text}]} is a record [role, text].   *)
(***************************************************************************)
EXTENDS Integers, Sequences, FiniteSets, TLC

(* ------------------------------ bounds -------------------------------- *)
\* number of non-blank submissions the model follows
MaxRuns == 2
\* number of timer ticks the model follows before the counter saturates
MaxTicks == 1

(* ------------------------- program constants -------------------------- *)
\* Array(4).fill(0): the fan-out width of stage 1 (and hence of stage 2)
N == 4
\* setInterval(..., 100) and prevTime + 100
TICK_MS == 100

MODEL_NAME == "gemini-2.5-pro"
INITIAL_SYSTEM_INSTRUCTION == "You are an expert-level AI assistant. ..."
REFINEMENT_SYSTEM_INSTRUCTION == "You are a reflective AI agent. ..."
SYNTHESIZER_SYSTEM_INSTRUCTION == "You are a master synthesizer AI. ..."
ERROR_TEXT == <<"Sorry, I encountered an error. Please try again.">>
STATUS_INITIAL == "Initializing agents..."
\* the label of the stage before, left in place
STATUS_STALE == "Initializing agents..."
STATUS_REFINING == "Refining answers..."
STATUS_SYNTHESIZING == "Synthesizing final response..."
INTERNAL_CONTEXT == <<"\n\n---INTERNAL CONTEXT---\n">>

(* ------------------------------ inputs -------------------------------- *)
\* what the user may type: the empty string, a blank, a query
UserInputs == {<<>>, <<" ">>, <<"q">>}
\* res.text of a response of the service: an empty text or an answer
Responses == {<<>>, <<"a">>}

Idx == 0 .. N - 1
Stages == 1 .. 3
RunIds == 1 .. MaxRuns

VARIABLES messages, isLoading, loadingStatus, timer, intervalOn, runs, nextRun

vars == <<messages, isLoading, loadingStatus, timer, intervalOn, runs, nextRun>>

(* --------------------------- pure helpers ------------------------------ *)
\* `${x}` of a missing array element or of an undefined res.text
UNDEFINED == <<"undefined">>

IsSpace(c) == c = " "

RECURSIVE TrimStart(_)
TrimStart(s) ==
    IF s # <<>> /\ IsSpace(Head(s)) THEN TrimStart(Tail(s)) ELSE s

RECURSIVE TrimEnd(_)
TrimEnd(s) ==
    IF s # <<>> /\ IsSpace(s[Len(s)]) THEN TrimEnd(SubSeq(s, 1, Len(s) - 1)) ELSE s

\* String.prototype.trim
\* a guard that takes the input as it is
TrimNone(s) == s

Trim(s) == TrimEnd(TrimStart(s))

UserMessage(text) == [role |-> "user", text |-> text]
ModelMessage(text) == [role |-> "model", text |-> text]

\* a JavaScript array is a function on a set of indices from 0 (a hole is an
\* index outside the domain); arr.length and arr[i]
ArrLen(arr) ==
    IF DOMAIN arr = {} THEN 0
    ELSE (CHOOSE m \in DOMAIN arr : \A j \in DOMAIN arr : j <= m) + 1

At(arr, i) == IF i \in DOMAIN arr THEN arr[i] ELSE UNDEFINED

\* a dense array 0 .. Len(seq)-1 from the sequence of its elements
ArrayOf(seq) == [k \in 0 .. Len(seq) - 1 |-> seq[k + 1]]

\* the filter that keeps every answer, the agent's own included
KeepAny(i, index) == TRUE

\* the filter predicate (_, i) => i !== index
KeepOther(i, index) == i # index

RECURSIVE FilterFrom(_, _, _)
FilterFrom(arr, index, i) ==
    IF i >= ArrLen(arr) THEN <<>>
    ELSE (IF i \in DOMAIN arr /\ KeepOther(i, index) THEN <<arr[i]>> ELSE <<>>)
         \o FilterFrom(arr, index, i + 1)

\* initialAnswers.filter((_, i) => i !== index)
OtherAnswers(initialAnswers, index) == ArrayOf(FilterFrom(initialAnswers, index, 0))

RefinementContext(initialAnswer, otherAnswers) ==
    <<"My initial response was: \"">> \o initialAnswer
    \o <<"\". The other agents responded with: 1. \"">> \o At(otherAnswers, 0)
    \o <<"\" 2. \"">> \o At(otherAnswers, 1)
    \o <<"\" 3. \"">> \o At(otherAnswers, 2)
    \o <<"\". Based on this context, critically re-evaluate and provide a new, improved response to the original query.">>

RefinementTurn(userInput, initialAnswer, otherAnswers) ==
    UserMessage(userInput \o INTERNAL_CONTEXT
                \o RefinementContext(initialAnswer, otherAnswers))

SynthesizerContext(refinedAnswers) ==
    <<"Here are the four refined responses to the user's query. Your task is to synthesize them into the best single, final answer.\n\nRefined Response 1:\n\"">>
    \o At(refinedAnswers, 0)
    \o <<"\"\n\nRefined Response 2:\n\"">> \o At(refinedAnswers, 1)
    \o <<"\"\n\nRefined Response 3:\n\"">> \o At(refinedAnswers, 2)
    \o <<"\"\n\nRefined Response 4:\n\"">> \o At(refinedAnswers, 3)
    \o <<"\"">>

\* the synthesis turn built from the refined answers in reverse order
SynthesizerTurnReversed(userInput, refinedAnswers) ==
    UserMessage(userInput \o INTERNAL_CONTEXT
                \o SynthesizerContext([i \in DOMAIN refinedAnswers |->
                                          At(refinedAnswers, ArrLen(refinedAnswers) - 1 - i)]))

SynthesizerTurn(userInput, refinedAnswers) ==
    UserMessage(userInput \o INTERNAL_CONTEXT \o SynthesizerContext(refinedAnswers))

\* the argument of ai.models.generateContent
Request(contents, systemInstruction) ==
    [model |-> MODEL_NAME, contents |-> contents, systemInstruction |-> systemInstruction]

\* a stage-1 fan-out that is one request short
InitialRequestsShort(mainChatHistory, currentUserTurn) ==
    [i \in 0 .. N - 2 |-> Request(Append(mainChatHistory, currentUserTurn),
                                  INITIAL_SYSTEM_INSTRUCTION)]

\* STEP 1: Array(4).fill(0).map(() => generateContent({...}))
InitialRequests(mainChatHistory, currentUserTurn) ==
    [i \in Idx |-> Request(Append(mainChatHistory, currentUserTurn),
                           INITIAL_SYSTEM_INSTRUCTION)]

\* a refinement fan-out that sends the query turn and then the refinement turn
RefinementRequestsWithQuery(mainChatHistory, userInput, initialAnswers) ==
    [index \in DOMAIN initialAnswers |->
        Request(Append(Append(mainChatHistory, UserMessage(userInput)),
                       RefinementTurn(userInput, initialAnswers[index],
                                      OtherAnswers(initialAnswers, index))),
                REFINEMENT_SYSTEM_INSTRUCTION)]

\* STEP 2: initialAnswers.map((initialAnswer, index) => generateContent({...}))
RefinementRequests(mainChatHistory, userInput, initialAnswers) ==
    [index \in DOMAIN initialAnswers |->
        Request(Append(mainChatHistory,
                       RefinementTurn(userInput, initialAnswers[index],
                                      OtherAnswers(initialAnswers, index))),
                REFINEMENT_SYSTEM_INSTRUCTION)]

\* STEP 3: the single synthesis request
SynthesisRequests(mainChatHistory, userInput, refinedAnswers) ==
    [i \in {0} |-> Request(Append(mainChatHistory,
                                  SynthesizerTurn(userInput, refinedAnswers)),
                           SYNTHESIZER_SYSTEM_INSTRUCTION)]

(* ------------------- Promise.all over a batch of calls ----------------- *)
\* the promise of call i is fulfilled with a response of text v
Fulfil(promises, i, v) ==
    [j \in DOMAIN promises \cup {i} |-> IF j = i THEN v ELSE promises[j]]

\* a resolver that stores the results in completion order: values.push(value)
StoreResultPush(values, i, v) ==
    [j \in DOMAIN values \cup {ArrLen(values)} |->
        IF j = ArrLen(values) THEN v ELSE values[j]]

\* the element resolver of Promise.all: values[index] = value
StoreResult(values, i, v) ==
    [j \in DOMAIN values \cup {i} |-> IF j = i THEN v ELSE values[j]]

\* a join that goes on as soon as all calls but one have resolved
AllButOneResolved(values, width) == Cardinality(DOMAIN values) >= width - 1

\* remainingElementsCount reached 0: every promise of the batch has resolved
AllResolved(values, width) == Cardinality(DOMAIN values) = width

\* responses.map(res => res.text)
Texts(values) == [i \in DOMAIN values |-> values[i]]

(* ------------------------------ run state ------------------------------ *)
\* settled[s][i]: the value (res.text) the promise of call i of stage s was
\*   fulfilled with, for the promises the handler holds
\*   (initialAgentPromises, refinementAgentPromises)
\* pc: the position of an invocation of handleSubmit:
\*   "Idle" not invoked, "InitialFanOut" awaiting line 120, "Refinement"
\*   awaiting line 137, "Synthesis" awaiting line 145, "Succeeded" returned
\*   after line 155, "Failed" returned after line 160
StagePc(s) == CASE s = 1 -> "InitialFanOut" [] s = 2 -> "Refinement" [] OTHER -> "Synthesis"

NoIssued == [s \in Stages |-> 0]

NoRun ==
    [pc |-> "Idle", userInput |-> <<>>, mainChatHistory |-> <<>>,
     requests |-> <<>>, pending |-> {}, values |-> <<>>,
     initialAnswers |-> <<>>, refinedAnswers |-> <<>>,
     finalResponseText |-> <<>>, issued |-> NoIssued, failedAt |-> 0,
     settled |-> [s \in Stages |-> <<>>]]

\* the calls of a batch: one per request, in flight from now on
Calls(s, requests) == {<<s, i>> : i \in DOMAIN requests}

\* the calls left in flight by a batch that nobody awaits any more: the program
\* holds no reference to them, so they are kept up to renaming (k calls of
\* stage s are the calls 0 .. k-1 of stage s)
Orphaned(pend) ==
    UNION {{<<s, k>> : k \in 0 .. Cardinality({c \in pend : c[1] = s}) - 1} : s \in Stages}

\* a batch that takes a result whenever its run has been started
BatchLiveOnceStarted(rec, s) == rec.pc # "Idle"

\* the handler is suspended on the batch of stage s of this run
BatchLive(rec, s) == rec.pc = StagePc(s)

\* a form that is never disabled
CanSubmitAlways == TRUE

\* <form onSubmit={handleSubmit}> with input and button disabled={isLoading}
CanSubmit == ~isLoading

\* useEffect(..., [isLoading]), lines 77-87, run with the commit of the render
\* in which isLoading changed to `loading`: the interval is set, or it is
\* cleared and the counter reset
EffectInterval(loading) == loading
\* an effect that clears the interval and leaves the counter as it is
EffectTimerKept(loading) == timer

EffectTimer(loading) == IF loading THEN timer ELSE 0

Init ==
    /\ messages = <<>>
    /\ isLoading = FALSE
    /\ loadingStatus = ""
    /\ timer = 0
    /\ intervalOn = FALSE
    /\ runs = [r \in RunIds |-> NoRun]
    /\ nextRun = 1

(* ------------------------------- actions ------------------------------- *)
\* a catch block that appends nothing
CatchMessagesNone(prev) == prev

\* a catch block that appends the error text as a user turn
CatchMessagesAsUser(prev) == Append(prev, UserMessage(ERROR_TEXT))

\* what the catch block appends (line 160)
CatchMessages(prev) == Append(prev, ModelMessage(ERROR_TEXT))

\* a success path that appends the final message twice
FinalMessagesTwice(prev, finalResponseText) ==
    Append(Append(prev, ModelMessage(finalResponseText)), ModelMessage(finalResponseText))

\* what the success path appends (lines 153-155)
FinalMessages(prev, finalResponseText) == Append(prev, ModelMessage(finalResponseText))

\* the run record once handleSubmit has returned: its locals are dead; the
\* calls still in flight stay in flight
Ended(rec, pc, finalResponseText, failedAt, pend) ==
    [NoRun EXCEPT !.pc = pc, !.userInput = rec.userInput,
                  !.mainChatHistory = rec.mainChatHistory,
                  !.finalResponseText = finalResponseText,
                  !.issued = rec.issued, !.failedAt = failedAt,
                  !.pending = Orphaned(pend)]

\* handleSubmit, lines 90-95, with a blank input: returns before any update
SubmitBlank(userInput) ==
    /\ CanSubmit
    /\ Trim(userInput) = <<>>
    /\ UNCHANGED vars

\* handleSubmit, lines 90-120: up to the first await
Submit(userInput) ==
    /\ CanSubmit
    /\ nextRun <= MaxRuns
    /\ Trim(userInput) # <<>>
    /\ LET userMessage == UserMessage(userInput)
           currentMessages == Append(messages, userMessage)
           mainChatHistory == SubSeq(currentMessages, 1, Len(currentMessages) - 1)
           currentUserTurn == UserMessage(userInput)
           requests == InitialRequests(mainChatHistory, currentUserTurn)
       IN  /\ messages' = currentMessages
           /\ isLoading' = TRUE
           /\ loadingStatus' = STATUS_INITIAL
           /\ runs' = [runs EXCEPT ![nextRun] =
                        [NoRun EXCEPT !.pc = "InitialFanOut",
                                      !.userInput = userInput,
                                      !.mainChatHistory = mainChatHistory,
                                      !.requests = requests,
                                      !.pending = Calls(1, requests),
                                      !.issued = [NoIssued EXCEPT ![1] =
                                                     Cardinality(DOMAIN requests)]]]
    /\ nextRun' = nextRun + 1
    /\ timer' = EffectTimer(TRUE)
    /\ intervalOn' = EffectInterval(TRUE)

\* a handler that goes from stage 1 straight to the synthesis, over the initial
\* answers
StartRefinementSkipped(r, rec, values, pend) ==
    LET initialAnswers == Texts(values)
        requests == SynthesisRequests(rec.mainChatHistory, rec.userInput, initialAnswers)
    IN  /\ loadingStatus' = STATUS_SYNTHESIZING
        /\ runs' = [runs EXCEPT ![r] =
                     [rec EXCEPT !.pc = "Synthesis",
                                 !.initialAnswers = initialAnswers,
                                 !.requests = requests,
                                 !.values = <<>>,
                                 !.pending = pend \cup Calls(3, requests),
                                 !.issued[3] = @ + Cardinality(DOMAIN requests)]]
        /\ UNCHANGED <<messages, isLoading, timer, intervalOn, nextRun>>

\* lines 121-137: all of stage 1 resolved, stage 2 is built and issued
StartRefinement(r, rec, values, pend) ==
    LET initialAnswers == Texts(values)
        requests == RefinementRequests(rec.mainChatHistory, rec.userInput, initialAnswers)
    IN  /\ loadingStatus' = STATUS_REFINING
        /\ runs' = [runs EXCEPT ![r] =
                     [rec EXCEPT !.pc = "Refinement",
                                 !.initialAnswers = initialAnswers,
                                 !.requests = requests,
                                 !.values = <<>>,
                                 !.pending = pend \cup Calls(2, requests),
                                 !.issued[2] = @ + Cardinality(DOMAIN requests)]]
        /\ UNCHANGED <<messages, isLoading, timer, intervalOn, nextRun>>

\* lines 138-145: all of stage 2 resolved, the synthesis call is issued
StartSynthesis(r, rec, values, pend) ==
    LET refinedAnswers == Texts(values)
        requests == SynthesisRequests(rec.mainChatHistory, rec.userInput, refinedAnswers)
    IN  /\ loadingStatus' = STATUS_SYNTHESIZING
        /\ runs' = [runs EXCEPT ![r] =
                     [rec EXCEPT !.pc = "Synthesis",
                                 !.refinedAnswers = refinedAnswers,
                                 !.requests = requests,
                                 !.values = <<>>,
                                 !.pending = pend \cup Calls(3, requests),
                                 !.issued[3] = @ + Cardinality(DOMAIN requests)]]
        /\ UNCHANGED <<messages, isLoading, timer, intervalOn, nextRun>>

\* a success path that appends the final message and leaves the busy flag set
SucceedStillLoading(r, rec, text, pend) ==
    /\ messages' = FinalMessages(messages, text)
    /\ runs' = [runs EXCEPT ![r] = Ended(rec, "Succeeded", text, 0, pend)]
    /\ UNCHANGED <<isLoading, timer, intervalOn, loadingStatus, nextRun>>

\* lines 151-155: the synthesis call resolved
Succeed(r, rec, text, pend) ==
    /\ isLoading' = FALSE
    /\ messages' = FinalMessages(messages, text)
    /\ runs' = [runs EXCEPT ![r] = Ended(rec, "Succeeded", text, 0, pend)]
    /\ timer' = EffectTimer(FALSE)
    /\ intervalOn' = EffectInterval(FALSE)
    /\ UNCHANGED <<loadingStatus, nextRun>>

\* a catch around each batch only: the error of a fan-out stage is recorded and
\* the handler goes on to the next stage with the answers it has
CatchContinue(r, rec, s, pend) ==
    IF s = 1 THEN StartRefinement(r, [rec EXCEPT !.failedAt = s], rec.values, pend)
    ELSE IF s = 2 THEN StartSynthesis(r, [rec EXCEPT !.failedAt = s], rec.values, pend)
    ELSE /\ isLoading' = FALSE
         /\ messages' = CatchMessages(messages)
         /\ runs' = [runs EXCEPT ![r] = Ended(rec, "Failed", <<>>, s, pend)]
         /\ timer' = EffectTimer(FALSE)
         /\ intervalOn' = EffectInterval(FALSE)
         /\ UNCHANGED <<loadingStatus, nextRun>>

\* a catch block that also clears the progress label
CatchResetStatus(r, rec, s, pend) ==
    /\ isLoading' = FALSE
    /\ messages' = CatchMessages(messages)
    /\ runs' = [runs EXCEPT ![r] = Ended(rec, "Failed", <<>>, s, pend)]
    /\ timer' = EffectTimer(FALSE)
    /\ intervalOn' = EffectInterval(FALSE)
    /\ loadingStatus' = ""
    /\ UNCHANGED nextRun

\* a catch block that issues the requests of the failed stage once more and
\* awaits them again
CatchRetry(r, rec, s, pend) ==
    /\ runs' = [runs EXCEPT ![r] =
                 [rec EXCEPT !.values = <<>>,
                             !.pending = pend \cup Calls(s, rec.requests),
                             !.issued[s] = @ + Cardinality(DOMAIN rec.requests)]]
    /\ UNCHANGED <<messages, isLoading, loadingStatus, timer, intervalOn, nextRun>>

\* lines 157-161: the awaited promise rejected
Catch(r, rec, s, pend) ==
    /\ isLoading' = FALSE
    /\ messages' = CatchMessages(messages)
    /\ runs' = [runs EXCEPT ![r] = Ended(rec, "Failed", <<>>, s, pend)]
    /\ timer' = EffectTimer(FALSE)
    /\ intervalOn' = EffectInterval(FALSE)
    /\ UNCHANGED <<loadingStatus, nextRun>>

\* a result that arrives for a batch nobody awaits any more
Discard(r, pend) ==
    /\ runs' = [runs EXCEPT ![r].pending = Orphaned(pend)]
    /\ UNCHANGED <<messages, isLoading, loadingStatus, timer, intervalOn, nextRun>>

\* the service answers call i of stage s of run r with a response whose text
\* is `text`; the handler resumes when the awaited promise settles
Return(r, s, i, text) ==
    /\ <<s, i>> \in runs[r].pending
    /\ LET rec == [runs[r] EXCEPT !.settled[s] = Fulfil(@, i, text)]
           pend == rec.pending \ {<<s, i>>}
           values == StoreResult(rec.values, i, text)
       IN  IF ~BatchLive(rec, s) THEN Discard(r, pend)
           ELSE IF s = 3 THEN Succeed(r, rec, text, pend)
           ELSE IF ~AllResolved(values, Cardinality(DOMAIN rec.requests))
                THEN /\ runs' = [runs EXCEPT ![r] =
                                  [rec EXCEPT !.values = values, !.pending = pend]]
                     /\ UNCHANGED <<messages, isLoading, loadingStatus, timer,
                                    intervalOn, nextRun>>
           ELSE IF s = 1 THEN StartRefinement(r, rec, values, pend)
           ELSE StartSynthesis(r, rec, values, pend)

\* call i of stage s of run r fails (the promise rejects)
Fail(r, s, i) ==
    /\ <<s, i>> \in runs[r].pending
    /\ LET rec == runs[r]
           pend == rec.pending \ {<<s, i>>}
       IN  IF BatchLive(rec, s) THEN Catch(r, rec, s, pend) ELSE Discard(r, pend)

\* the interval callback, line 81
Tick ==
    /\ intervalOn
    /\ timer < MaxTicks * TICK_MS
    /\ timer' = timer + TICK_MS
    /\ UNCHANGED <<messages, isLoading, loadingStatus, intervalOn, runs, nextRun>>

Next ==
    \/ \E userInput \in UserInputs : SubmitBlank(userInput)
    \/ \E userInput \in UserInputs : Submit(userInput)
    \/ \E r \in RunIds, s \in Stages, i \in Idx, text \in Responses : Return(r, s, i, text)
    \/ \E r \in RunIds, s \in Stages, i \in Idx : Fail(r, s, i)
    \/ Tick

Spec == Init /\ [][Next]_vars

\* call i of stage s of run r settles, one way or the other
Settle(r, s, i) == (\E text \in Responses : Return(r, s, i, text)) \/ Fail(r, s, i)

\* the service answers: while calls are in flight, one of them settles. A call
\* stays in flight until it settles itself and a run issues 9 calls at most, so
\* this is to say that every issued call eventually returns or fails.
SomeSettles == \E r \in RunIds, s \in Stages, i \in Idx : Settle(r, s, i)

LiveSpec == Spec /\ WF_vars(SomeSettles)

(* ----------------------- notions of the properties --------------------- *)
Started(r) == runs[r].pc # "Idle"
Active(r) == runs[r].pc \in {"InitialFanOut", "Refinement", "Synthesis"}
Terminated(r) == runs[r].pc \in {"Succeeded", "Failed"}

\* the history the run was started with
StartHistory(r) == runs[r].mainChatHistory

\* the turns in the history from the start of run r to the start of the next run
RunEnd(r) ==
    IF r + 1 \in RunIds /\ Started(r + 1)
    THEN Len(StartHistory(r + 1)) ELSE Len(messages)
RunTurns(r) == SubSeq(messages, Len(StartHistory(r)) + 1, RunEnd(r))

\* the user turn of the query of run r
QueryTurn(r) == UserMessage(runs[r].userInput)

(* -------------------------------- C1 ----------------------------------- *)
\* C1 as stated: once a run has Failed, no Agent turn has been appended: the
\* history is the history the run was started with (with or without the
\* query's own user turn).
C1_HistoryUntouchedOnFailure ==
    \A r \in RunIds :
        (runs[r].pc = "Failed" /\ nextRun = r + 1)
            => messages \in {StartHistory(r), Append(StartHistory(r), QueryTurn(r))}

\* C1 as amended: a failed run leaves the history it was started with in place
\* and has appended to it the query's user turn and exactly one model turn, whose
\* text is the fixed error message; no partial result is written.
C1_FailureAppendsOnlyErrorTurn ==
    \A r \in RunIds :
        runs[r].pc = "Failed"
            => /\ SubSeq(messages, 1, Len(StartHistory(r))) = StartHistory(r)
               /\ RunTurns(r) = <<QueryTurn(r), ModelMessage(ERROR_TEXT)>>
               /\ ERROR_TEXT \notin Responses

\* a run has failed in stage 2, after stage 1 had produced its answers, with
\* sibling calls still in flight
C1_Witness ==
    \E r \in RunIds :
        runs[r].pc = "Failed" /\ runs[r].failedAt = 2 /\ runs[r].pending # {}

(* -------------------------------- C2 ----------------------------------- *)
\* C2: a run in which all nine calls succeeded has appended, after the query's
\* user turn, exactly one model turn, whose text is the synthesis response S;
\* until the synthesis call has succeeded the run has appended no model turn;
\* so no initial or refined answer is ever a turn of the history.
C2_SuccessAppendsExactlySynthesis ==
    \A r \in RunIds :
        /\ runs[r].pc = "Succeeded"
              => /\ RunTurns(r) = <<QueryTurn(r), ModelMessage(runs[r].finalResponseText)>>
                 /\ runs[r].issued = [s \in Stages |-> IF s = 3 THEN 1 ELSE N]
        /\ Active(r) => RunTurns(r) = <<QueryTurn(r)>>

\* a run has succeeded with a non-empty synthesis response
C2_Witness ==
    \E r \in RunIds :
        /\ runs[r].pc = "Succeeded"
        /\ runs[r].finalResponseText = <<"a">>
        /\ messages[Len(messages)] = ModelMessage(<<"a">>)

(* -------------------------------- C3 ----------------------------------- *)
\* C3: at most one run is between its start and its termination, a run is
\* active exactly while the form is disabled, and the turns of the runs are not
\* interleaved: each run starts on a history that ends with the two turns of
\* the run before it, which has terminated.
C3_AtMostOneActiveRun ==
    /\ Cardinality({r \in RunIds : Active(r)}) <= 1
    /\ isLoading <=> (\E r \in RunIds : Active(r))
    /\ \A r \in RunIds :
          (r + 1 \in RunIds /\ Started(r + 1))
              => /\ Terminated(r)
                 /\ Len(StartHistory(r + 1)) = Len(StartHistory(r)) + 2
                 /\ SubSeq(messages, 1, Len(StartHistory(r + 1))) = StartHistory(r + 1)

\* a second run is active while calls of the first, failed, run are in flight
C3_Witness ==
    /\ MaxRuns >= 2
    /\ runs[1].pc = "Failed" /\ runs[1].pending # {}
    /\ Active(2)

(* -------------------------------- C4 ----------------------------------- *)
\* C4: a run in which a stage-1 call failed has issued no stage-2 and no
\* synthesis request, a run in which a stage-2 call failed has issued no
\* synthesis request, and a failed run has no call of a later stage in flight.
C4_StrictSequencingOnFailure ==
    \A r \in RunIds :
        /\ runs[r].failedAt = 1 => runs[r].issued[2] = 0 /\ runs[r].issued[3] = 0
        /\ runs[r].failedAt = 2 => runs[r].issued[3] = 0
        /\ runs[r].failedAt # 0
              => /\ runs[r].pc = "Failed"
                 /\ \A c \in runs[r].pending : c[1] = runs[r].failedAt

\* a stage-1 call has failed after another stage-1 call had resolved
C4_Witness ==
    \E r \in RunIds :
        runs[r].failedAt = 1 /\ Cardinality(runs[r].pending) \in 1 .. N - 2

(* -------------------------------- C5 ----------------------------------- *)
\* C5: whenever a stage-2 request has been issued no stage-1 call is in flight
\* and all N initial answers are there; whenever the synthesis request has been
\* issued no stage-1 or stage-2 call is in flight and all N refined answers are
\* there.
C5_JoinBarrier ==
    \A r \in RunIds :
        /\ runs[r].issued[2] > 0 => \A c \in runs[r].pending : c[1] # 1
        /\ runs[r].issued[3] > 0 => \A c \in runs[r].pending : c[1] = 3
        /\ runs[r].pc \in {"Refinement", "Synthesis"}
              => DOMAIN runs[r].initialAnswers = Idx
        /\ runs[r].pc = "Synthesis" => DOMAIN runs[r].refinedAnswers = Idx

\* the synthesis call of a run is in flight
C5_Witness ==
    \E r \in RunIds : runs[r].pc = "Synthesis" /\ runs[r].pending = {<<3, 0>>}

(* -------------------------------- C6 ----------------------------------- *)
\* the indices of the three other agents, ascending
OthersOf(i) ==
    CASE i = 0 -> <<1, 2, 3>> [] i = 1 -> <<0, 2, 3>>
      [] i = 2 -> <<0, 1, 3>> [] OTHER -> <<0, 1, 2>>

\* C6: for every i in 0..3 the stage-2 request of agent i ends with the user turn
\* that embeds initialAnswers[i] as the agent's own answer and then the three
\* answers initialAnswers[j], j # i, in ascending order of j.
C6_RefinementEmbedsOwnAndOthers ==
    \A r \in RunIds :
        runs[r].pc = "Refinement"
            => \A i \in Idx :
                  LET ia == runs[r].initialAnswers
                      o == OthersOf(i)
                      contents == runs[r].requests[i].contents
                  IN  /\ \A k \in 1 .. 3 : o[k] # i
                      /\ contents[Len(contents)] =
                            UserMessage(runs[r].userInput \o INTERNAL_CONTEXT
                                \o RefinementContext(ia[i],
                                      ArrayOf(<<ia[o[1]], ia[o[2]], ia[o[3]]>>)))

\* stage 2 is in flight for initial answers that differ from agent to agent
C6_Witness ==
    \E r \in RunIds :
        /\ runs[r].pc = "Refinement"
        /\ runs[r].initialAnswers[0] # runs[r].initialAnswers[1]
        /\ runs[r].initialAnswers[2] # runs[r].initialAnswers[3]

(* -------------------------------- C7 ----------------------------------- *)
\* C7: in every state of a run, slot i of the results gathered for a fan-out
\* batch holds the text the service answered call i of that batch with, and
\* only the answered calls have a slot filled, whatever the order in which the
\* calls were answered; so initialAnswers[i] and refinedAnswers[i] are the
\* answers to the calls i of stage 1 and of stage 2.
C7_ResultsIndexStable ==
    \A r \in RunIds :
        /\ runs[r].pc = "InitialFanOut" => runs[r].values = runs[r].settled[1]
        /\ runs[r].pc = "Refinement" => runs[r].values = runs[r].settled[2]
        /\ runs[r].pc \in {"Refinement", "Synthesis"}
              => runs[r].initialAnswers = runs[r].settled[1]
        /\ runs[r].pc = "Synthesis" => runs[r].refinedAnswers = runs[r].settled[2]

\* the calls of a batch were answered out of index order with different texts,
\* and the batch has completed
C7_Witness ==
    \E r \in RunIds :
        /\ runs[r].pc = "Refinement"
        /\ runs[r].initialAnswers[0] = <<"a">>
        /\ runs[r].initialAnswers[3] = <<>>
        /\ 2 \in DOMAIN runs[r].values
        /\ 0 \notin DOMAIN runs[r].values

(* -------------------------------- C8 ----------------------------------- *)
\* C8: the synthesis request ends with the user turn that embeds the four
\* refined answers refinedAnswers[0..3] in index order, and nothing taken from
\* the initial answers.
C8_SynthesisEmbedsRefined ==
    \A r \in RunIds :
        runs[r].pc = "Synthesis"
            => LET ra == runs[r].refinedAnswers
                   contents == runs[r].requests[0].contents
               IN  /\ DOMAIN ra = Idx
                   /\ DOMAIN runs[r].requests = {0}
                   /\ contents[Len(contents)] =
                         UserMessage(runs[r].userInput \o INTERNAL_CONTEXT
                             \o SynthesizerContext(
                                   ArrayOf(<<ra[0], ra[1], ra[2], ra[3]>>)))

\* the synthesis request is in flight for refined answers that differ from the
\* initial answers and from each other
C8_Witness ==
    \E r \in RunIds :
        /\ runs[r].pc = "Synthesis"
        /\ runs[r].refinedAnswers[0] # runs[r].refinedAnswers[3]
        /\ runs[r].refinedAnswers[0] # runs[r].initialAnswers[0]
        /\ runs[r].refinedAnswers[3] # runs[r].initialAnswers[3]

(* -------------------------------- C9 ----------------------------------- *)
\* C9: every started run has issued exactly N stage-1 requests, one per index,
\* all equal and all with the initial system instruction; every run that has
\* reached stage 2 has issued exactly N stage-2 requests, one per index, all
\* with the refinement system instruction.
C9_FanOutShape ==
    \A r \in RunIds :
        /\ Started(r) => runs[r].issued[1] = N
        /\ runs[r].issued[2] \in {0, N}
        /\ runs[r].pc \in {"Refinement", "Synthesis", "Succeeded"} => runs[r].issued[2] = N
        /\ runs[r].pc = "InitialFanOut"
              => /\ DOMAIN runs[r].requests = Idx
                 /\ \A i, j \in Idx : runs[r].requests[i] = runs[r].requests[j]
                 /\ \A i \in Idx :
                       runs[r].requests[i].systemInstruction = INITIAL_SYSTEM_INSTRUCTION
        /\ runs[r].pc = "Refinement"
              => /\ DOMAIN runs[r].requests = Idx
                 /\ \A i \in Idx :
                       runs[r].requests[i].systemInstruction = REFINEMENT_SYSTEM_INSTRUCTION

\* a second run has reached stage 2
C9_Witness ==
    /\ MaxRuns >= 2
    /\ runs[2].pc = "Refinement"
    /\ runs[2].issued[2] = N

(* -------------------------------- C10 ---------------------------------- *)
\* C10 as stated: an empty result fails the run: no run goes past a stage with
\* an empty answer, and a succeeded run has appended a non-empty model turn.
C10_EmptyResultFailsRun ==
    \A r \in RunIds :
        /\ runs[r].pc \in {"Refinement", "Synthesis"}
              => \A i \in DOMAIN runs[r].initialAnswers : runs[r].initialAnswers[i] # <<>>
        /\ runs[r].pc = "Synthesis"
              => \A i \in DOMAIN runs[r].refinedAnswers : runs[r].refinedAnswers[i] # <<>>
        /\ runs[r].pc = "Succeeded"
              => /\ runs[r].finalResponseText # <<>>
                 /\ messages[RunEnd(r)].text # <<>>

(* -------------------------------- C11 ---------------------------------- *)
\* the progress label of each stage, as the user reads it
LabelOf(s) ==
    CASE s = 1 -> "Initializing agents..."
      [] s = 2 -> "Refining answers..."
      [] OTHER -> "Synthesizing final response..."

\* what a failed run has reported: the model turn it appended
Reported(r) == messages[Len(StartHistory(r)) + 2]

\* C11 as stated: the error a failed run reports carries the stage of the
\* failing call: runs that failed in different stages report different errors.
C11_ErrorCarriesStage ==
    \A r1, r2 \in RunIds :
        (/\ runs[r1].pc = "Failed" /\ runs[r2].pc = "Failed"
         /\ runs[r1].failedAt # runs[r2].failedAt)
            => Reported(r1) # Reported(r2)

\* C11 as amended: a failed run reports the same fixed error message whatever
\* the stage of the failing call; the stage of the failing call is the phase
\* that was active when it failed, and it is left behind only as the progress
\* label, which the failure does not change.
C11_ErrorIsGenericStageInLabel ==
    \A r \in RunIds :
        runs[r].pc = "Failed"
            => /\ Reported(r) = ModelMessage(ERROR_TEXT)
               /\ runs[r].failedAt \in Stages
               /\ runs[r].issued[runs[r].failedAt] > 0
               /\ \A s \in Stages : s > runs[r].failedAt => runs[r].issued[s] = 0
               /\ nextRun = r + 1 => loadingStatus = LabelOf(runs[r].failedAt)

\* the latest run has failed in the synthesis stage
C11_Witness ==
    \E r \in RunIds :
        runs[r].pc = "Failed" /\ runs[r].failedAt = 3 /\ nextRun = r + 1

(* -------------------------------- C12 ---------------------------------- *)
\* C12: a step that changes a run that has terminated is the arrival of the
\* result of one of its calls still in flight: it takes calls out of flight
\* and changes nothing else, neither of that run (its phase, its requests, the
\* number of calls it has issued) nor of any other run, nor the history, the
\* busy flag or the progress label; and a terminated run keeps its calls in
\* flight until they are answered, at most N - 1 of them.
C12_LateResultsDiscarded ==
    [][\A r \in RunIds :
          Terminated(r)
              => /\ Cardinality(runs'[r].pending) <= Cardinality(runs[r].pending)
                 /\ Cardinality(runs[r].pending) <= N - 1
                 /\ runs'[r] = [runs[r] EXCEPT !.pending = runs'[r].pending]
                 /\ runs'[r] # runs[r]
                       => /\ Cardinality(runs'[r].pending) = Cardinality(runs[r].pending) - 1
                          /\ \A r2 \in RunIds \ {r} : runs'[r2] = runs[r2]
                          /\ UNCHANGED <<messages, isLoading, loadingStatus, nextRun>>]_vars

\* a sibling call of a run that failed in stage 1 is in flight while the next
\* run has gone on to stage 2
C12_Witness ==
    /\ MaxRuns >= 2
    /\ runs[1].failedAt = 1 /\ Cardinality(runs[1].pending) = 1
    /\ runs[2].pc = "Refinement"

(* -------------------------------- C13 ---------------------------------- *)
\* the phase changes a run may make
PhaseSteps ==
    {<<"Idle", "InitialFanOut">>, <<"InitialFanOut", "Refinement">>,
     <<"Refinement", "Synthesis">>, <<"Synthesis", "Succeeded">>,
     <<"InitialFanOut", "Failed">>, <<"Refinement", "Failed">>,
     <<"Synthesis", "Failed">>}

\* C13: every change of the phase of a run is one of Idle -> InitialFanOut ->
\* Refinement -> Synthesis -> Succeeded, or a step from one of the three stages
\* to Failed: no phase is skipped or entered again, and Succeeded and Failed are
\* never left.
C13_PhasesInOrder ==
    [][\A r \in RunIds :
          runs'[r].pc # runs[r].pc => <<runs[r].pc, runs'[r].pc>> \in PhaseSteps]_vars

\* one run has gone through every phase to Succeeded and the next has failed in
\* the refinement stage
C13_Witness ==
    /\ MaxRuns >= 2
    /\ runs[1].pc = "Succeeded"
    /\ runs[2].pc = "Failed" /\ runs[2].failedAt = 2

Slots(s) == IF s = 3 THEN 1 ELSE N

\* the outbound calls a run has issued
OutboundCalls(r) == runs[r].issued[1] + runs[r].issued[2] + runs[r].issued[3]

\* the calls of stage s of run r that are in flight
InFlight(r, s) == {c \in runs[r].pending : c[1] = s}

\* C15: no call is retried or repeated: a run issues for each stage either no
\* call or one call per request slot (4, 4, 1), never more calls are in flight
\* than were issued, a run that succeeded has issued exactly 9 calls, a run
\* that failed in stage 1 exactly 4 and a run that failed in stage 2 exactly 8.
C15_NoRetries ==
    \A r \in RunIds :
        /\ \A s \in Stages :
              /\ runs[r].issued[s] \in {0, Slots(s)}
              /\ Cardinality(InFlight(r, s)) <= runs[r].issued[s]
              /\ Active(r) =>
                    Cardinality(InFlight(r, s)) + Cardinality(DOMAIN runs[r].settled[s])
                        <= runs[r].issued[s]
        /\ runs[r].pc = "Succeeded" => OutboundCalls(r) = 9
        /\ (runs[r].pc = "Failed" /\ runs[r].failedAt = 1) => OutboundCalls(r) = 4
        /\ (runs[r].pc = "Failed" /\ runs[r].failedAt = 2) => OutboundCalls(r) = 8
        /\ ~Started(r) => OutboundCalls(r) = 0

\* a run that failed in stage 1 after 4 calls and a later one that succeeded
\* after 9
C15_Witness ==
    /\ MaxRuns >= 2
    /\ runs[1].pc = "Failed" /\ runs[1].failedAt = 1 /\ OutboundCalls(1) = 4
    /\ runs[2].pc = "Succeeded" /\ OutboundCalls(2) = 9

(* -------------------------------- C16 ---------------------------------- *)
\* the turns in the history before run r was submitted: two for each run
\* before it
TurnsBefore(r) == 2 * (r - 1)

\* text begins with the query followed by the context marker, and goes on
IsPromptOf(text, userInput) ==
    /\ Len(text) > Len(userInput) + Len(INTERNAL_CONTEXT)
    /\ SubSeq(text, 1, Len(userInput) + Len(INTERNAL_CONTEXT)) = userInput \o INTERNAL_CONTEXT

\* C16: the contents of every request of a run in a stage are the history as it
\* was before the run's query was appended, which is the same in all of them,
\* followed by exactly one turn, a user turn: the query itself in stage 1, the
\* stage's prompt (query, context marker, context) in stages 2 and 3; the query
\* turn, which the history shows next, is not part of the prefix.
C16_RequestContents ==
    \A r \in RunIds : \A s \in Stages :
        runs[r].pc = StagePc(s) =>
            LET before == SubSeq(messages, 1, TurnsBefore(r))
            IN  /\ Len(messages) = TurnsBefore(r) + 1
                /\ messages[TurnsBefore(r) + 1] = QueryTurn(r)
                /\ DOMAIN runs[r].requests = 0 .. Slots(s) - 1
                /\ \A i \in DOMAIN runs[r].requests :
                      LET contents == runs[r].requests[i].contents
                          last == contents[Len(contents)]
                      IN  /\ Len(contents) = Len(before) + 1
                          /\ SubSeq(contents, 1, Len(before)) = before
                          /\ last.role = "user"
                          /\ s = 1 => last = QueryTurn(r)
                          /\ s > 1 => /\ IsPromptOf(last.text, runs[r].userInput)
                                      /\ last # QueryTurn(r)

\* the second run, started on a history of two turns, is in the refinement
\* stage
C16_Witness ==
    /\ MaxRuns >= 2
    /\ runs[2].pc = "Refinement"
    /\ Len(runs[2].requests[0].contents) = 3
    /\ runs[1].pc = "Succeeded"

(* -------------------------------- C17 ---------------------------------- *)
\* some run is between its submission and its end
SomeActive == \E r \in RunIds : Active(r)

C18_RunsTerminate ==
    /\ [](/\ isLoading <=> SomeActive
          /\ ~isLoading => /\ CanSubmit
                           /\ \A r \in RunIds : Started(r) => Terminated(r))
    /\ isLoading ~> ~isLoading

\* every way a run can end has been taken or is being taken and the flag is
\* cleared: one run failed in stage 2, the next has succeeded
C18_Witness ==
    /\ MaxRuns >= 2
    /\ runs[1].pc = "Failed" /\ runs[1].failedAt = 2
    /\ runs[2].pc = "Succeeded"
    /\ ~isLoading

(* -------------------------------- C19 ---------------------------------- *)
\* the runs submitted so far
Submitted == nextRun - 1

\* C19: the turns of the history alternate between user and model, starting
\* with a user turn; when no run is active the history has exactly two turns
\* for each run submitted, and while one is active the model turn of that run
\* alone is missing; the query of every run that was started, and so of every
\* run that has issued a request, is in its place, turn 2r - 1, from then on,
\* and every terminated run has its one model turn right after it.
C19_HistoryAlternates ==
    /\ \A k \in 1 .. Len(messages) :
          messages[k].role = IF k % 2 = 1 THEN "user" ELSE "model"
    /\ Len(messages) = IF SomeActive THEN 2 * Submitted - 1 ELSE 2 * Submitted
    /\ \A r \in RunIds :
          /\ Started(r) <=> r <= Submitted
          /\ runs[r].issued[1] > 0 => Started(r)
          /\ Started(r) => /\ Len(messages) >= 2 * r - 1
                           /\ messages[2 * r - 1] = QueryTurn(r)
          /\ Terminated(r) => /\ Len(messages) >= 2 * r
                              /\ messages[2 * r].role = "model"
          /\ Active(r) => Len(messages) = 2 * r - 1

\* two runs have terminated, the first in failure, and the history has four
\* turns
C19_Witness ==
    /\ MaxRuns >= 2
    /\ ~SomeActive
    /\ runs[1].pc = "Failed" /\ Terminated(2)
    /\ Len(messages) = 4

(* -------------------------------- C20 ---------------------------------- *)
\* the input is empty or holds white space only
IsBlank(userInput) == \A k \in 1 .. Len(userInput) : userInput[k] = " "

\* the form is submitted with this input
HandleSubmit(userInput) == SubmitBlank(userInput) \/ Submit(userInput)

\* C20: a submission of an empty or white-space-only query cannot start a run
\* and cannot change anything, neither the history, the busy flag, the
\* progress label, the timer nor the runs and the calls they have in flight;
\* so no run ever has a blank query and no user turn of the history is blank.
C20_BlankSubmissionIsNoOp ==
    /\ \A userInput \in UserInputs :
          IsBlank(userInput) =>
              /\ ~ENABLED Submit(userInput)
              /\ ~ENABLED (HandleSubmit(userInput) /\ vars' # vars)
              /\ CanSubmit => ENABLED SubmitBlank(userInput)
    /\ \A r \in RunIds : Started(r) => ~IsBlank(runs[r].userInput)
    /\ \A k \in 1 .. Len(messages) :
          messages[k].role = "user" => ~IsBlank(messages[k].text)

\* a run has ended, the history and the label are not empty, and the form
\* takes a white-space-only submission
C20_Witness ==
    /\ Terminated(1)
    /\ Len(messages) = 2
    /\ loadingStatus # ""
    /\ ENABLED SubmitBlank(<<" ">>)
    /\ ENABLED Submit(<<"q">>)

====
